---- MODULE Spec2Model ----
(***************************************************************************)
(* A model of goes16ci/imager.py: the granule locator                      *)
(* (GOES16ABI.goes16_abi_filename), patch extraction                       *)
(* (GOES16ABI.extract_image_patch), the per-time-step sampling loop        *)
(* (extract_abi_patches) and regrid_imagery.                               *)
(*                                                                         *)
(* Times are integers: a request time is in seconds, a filename timestamp  *)
(* is in tenths of a second (the filename's 14 digits), both counted from  *)
(* the same origin.  Arrays are sequences indexed from 1; index i of the   *)
(* source is index i + 1 here.                                             *)
(***************************************************************************)
EXTENDS Integers, Sequences, FiniteSets, TLC

VARIABLES
    abi_fs,      \* the granule files under abi_path (a set of file names)
    loc_req,     \* SpecLocate: the lookup asked of goes16_abi_filename
    loc_out,     \* SpecLocate: what the lookup returned or raised
    img,         \* SpecPatch: the GOES16ABI instance patches are cut from
    ext_req,     \* SpecPatch: the arguments of extract_image_patch
    ext_out,     \* SpecPatch: what extract_image_patch returned or raised
    cfg,         \* SpecRun: the arguments and files of one extract_abi_patches run
    pc,          \* SpecRun: where the run is
    t,           \* SpecRun: the loop's time step (0-based)
    s,           \* SpecRun: the loop's sample index (0-based)
    k,           \* SpecRun: the band __init__ opens next (1-based)
    samples,     \* SpecRun: time_samples of every step begun so far
    goes16_ds,   \* SpecRun: goes16_abi_timestep.goes16_ds, band -> open dataset
    opened,      \* SpecRun: granule datasets opened and not closed
    lookups,     \* SpecRun: calls of goes16_abi_filename made so far
    flash_counts, patches, patch_lons, patch_lats, patch_times,
    glm_open,    \* SpecRun: glm_ds is open
    out_file,    \* SpecRun: the dataset written to out_file
    dir_made,    \* SpecRun: makedirs(patch_path) was called
    err,         \* SpecRun: the exception that ended the run
    rg_in,       \* SpecRegrid: the arguments of regrid_imagery
    rg_out       \* SpecRegrid: what regrid_imagery returned

locVars == <<abi_fs, loc_req, loc_out>>
patchVars == <<img, ext_req, ext_out>>
loopVars_noPc == <<t, s, k, samples, goes16_ds, opened, lookups>>
loopVars == <<pc, loopVars_noPc>>
dataVars == <<flash_counts, patches, patch_lons, patch_lats, patch_times>>
endVars == <<glm_open, out_file, dir_made, err>>
runVars == <<cfg, loopVars, dataVars, endVars>>
regridVars == <<rg_in, rg_out>>
vars == <<abi_fs, loc_req, loc_out, patchVars, runVars, regridVars>>

IdleRun ==
    /\ cfg = "idle" /\ pc = "idle" /\ t = 0 /\ s = 0 /\ k = 0 /\ samples = <<>>
    /\ goes16_ds = <<>> /\ opened = {} /\ lookups = 0
    /\ flash_counts = <<>> /\ patches = <<>> /\ patch_lons = <<>>
    /\ patch_lats = <<>> /\ patch_times = <<>>
    /\ glm_open = FALSE /\ out_file = "idle" /\ dir_made = FALSE /\ err = "idle"

IdleRegrid == rg_in = "idle" /\ rg_out = "idle"

-----------------------------------------------------------------------------
(* Bounds of the model *)

MaxFiles == 3        \* files in the granule directory tree
MaxTol == 3          \* largest time_range_minutes tried by the locator
MaxDim == 4          \* largest number of rows / columns of an image
MaxSize == 4         \* largest patch size asked for, in pixels
MaxTimes == 2        \* largest number of time steps of a GLM grid file
MaxSamples == 2      \* largest samples_per_time

-----------------------------------------------------------------------------
(* Small helpers: numpy / Python built-ins used by the source *)

Abs(x) == IF x < 0 THEN -x ELSE x

SecondsPerDay == 24 * 60 * 60

SeqMin(q) == CHOOSE m \in {q[i] : i \in DOMAIN q} : \A i \in DOMAIN q : m <= q[i]

Max2(a, b) == IF a > b THEN a ELSE b
Min2(a, b) == IF a < b THEN a ELSE b

\* np.argmin: the first index holding the minimum
argmin(q) == CHOOSE i \in DOMAIN q : q[i] = SeqMin(q) /\ \A j \in 1..(i - 1) : q[j] # SeqMin(q)

-----------------------------------------------------------------------------
(* Granule files.  A file name OR_ABI-L1b-RadC-M3C<ch>_G16_s<s>_e<e>_c<c>.nc *)
(* in date directory <dir> is the record [dir, ch, s, e, c]; s, e, c are   *)
(* the 14-digit stamps (year, day of year, hour, minute, second, tenth).   *)

File(d, ch, ts, te, tc) == [dir |-> d, ch |-> ch, s |-> ts, e |-> te, c |-> tc]
NoFile == File(-1, -1, -1, -1, -1)

\* sorted(): file names of one directory and channel differ in s, e, c only,
\* fixed-width digit strings, so string order is (s, e, c) order
NameLess(f, g) ==
    \/ f.s < g.s
    \/ f.s = g.s /\ f.e < g.e
    \/ f.s = g.s /\ f.e = g.e /\ f.c < g.c

RECURSIVE sorted(_)
sorted(S) ==
    IF S = {} THEN <<>>
    ELSE LET m == CHOOSE f \in S : \A g \in S \ {f} : NameLess(f, g)
         IN <<m>> \o sorted(S \ {m})

\* glob(join(path, date.strftime("%Y%m%d"), "OR_ABI-L1b-RadC-M3C{channel:02d}_G16_*.nc"))
glob(fs, date, channel) == {f \in fs : f.dir = date \div SecondsPerDay /\ f.ch = channel}

\* split("_")[date_index[file_date]]: the s, e or c field of the name
date_index(file_date) == IF file_date = "s" THEN -3 ELSE IF file_date = "e" THEN -2 ELSE -1
NameField(f, idx) == IF idx = -3 THEN f.s ELSE IF idx = -2 THEN f.e ELSE f.c

\* [1:-1] drops the field's letter and the tenth-of-a-second digit; strptime
\* reads the remaining 13 digits as a time in seconds
strptime(stamp) == stamp \div 10

abi_file_dates(files, file_date) ==
    LET fd == IF file_date \notin {"c", "s", "e"} THEN "c" ELSE file_date
    IN [i \in DOMAIN files |-> strptime(NameField(files[i], date_index(fd)))]

LocResult(st, f, near) == [status |-> st, filename |-> f, nearest |-> near]
NoResult == LocResult("none", NoFile, -1)

\* the lookup with the file taken at file_index[0] instead of argmin(date_diffs)
goes16_abi_filename_first(fs, date, channel, time_range_minutes) ==
    LET channel_files == sorted(glob(fs, date, channel))
        channel_dates == abi_file_dates(channel_files, "e")
        date_diffs == [i \in DOMAIN channel_files |-> Abs(channel_dates[i] - date)]
        file_index == {i \in DOMAIN channel_files :
                          date_diffs[i] <= time_range_minutes * 60}
    IN IF file_index = {}
       THEN IF Len(channel_files) = 0
            THEN LocResult("ValueError", NoFile, -1)
            ELSE LocResult("FileNotFoundError", NoFile, SeqMin(date_diffs))
       ELSE LocResult("ok", channel_files[CHOOSE i \in file_index :
                                             \A j \in file_index : i <= j], -1)

\* GOES16ABI.goes16_abi_filename; file_date is left at its default "e".
\* nearest is the miss reported by the message, in seconds.
goes16_abi_filename(fs, date, channel, time_range_minutes) ==
    LET channel_files == sorted(glob(fs, date, channel))
        channel_dates == abi_file_dates(channel_files, "e")
        date_diffs == [i \in DOMAIN channel_files |-> Abs(channel_dates[i] - date)]
        file_index == {i \in DOMAIN channel_files :
                          date_diffs[i] <= time_range_minutes * 60}
    IN IF file_index = {}
       THEN \* the message is built first: .values.min() of an empty array raises
            IF Len(channel_files) = 0
            THEN LocResult("ValueError", NoFile, -1)
            ELSE LocResult("FileNotFoundError", NoFile, SeqMin(date_diffs))
       ELSE LocResult("ok", channel_files[argmin(date_diffs)], -1)

-----------------------------------------------------------------------------
(* SpecLocate: one lookup in a directory tree drawn from LocPool *)

Midnight == SecondsPerDay      \* 00:00:00 of day 1, in seconds
Stamp(sec, tenth) == (Midnight + sec) * 10 + tenth

LocPool ==
    { File(1, 2, Stamp(0, 0),   Stamp(150, 0), Stamp(155, 0)),
      File(1, 2, Stamp(-10, 0), Stamp(150, 9), Stamp(156, 0)),
      File(1, 2, Stamp(-60, 0), Stamp(60, 0),  Stamp(62, 3)),
      File(1, 2, Stamp(200, 0), Stamp(240, 5), Stamp(241, 0)),
      File(1, 2, Stamp(-300, 0), Stamp(-90, 0), Stamp(-80, 0)),
      File(1, 1, Stamp(-20, 0), Stamp(0, 0),   Stamp(1, 0)),
      File(0, 2, Stamp(-40, 0), Stamp(-30, 0), Stamp(-20, 0)) }

LocDates == {Midnight, Midnight + 150, Midnight - 30}
LocChannels == {1, 2}

InitLocate ==
    /\ abi_fs \in {S \in SUBSET LocPool : Cardinality(S) <= MaxFiles}
    /\ loc_req \in [date : LocDates, channel : LocChannels, tol : 0..MaxTol]
    /\ loc_out = NoResult
    /\ img = "idle" /\ ext_req = "idle" /\ ext_out = "idle"
    /\ IdleRun /\ IdleRegrid

Locate ==
    /\ loc_out = NoResult
    /\ loc_out' = goes16_abi_filename(abi_fs, loc_req.date, loc_req.channel, loc_req.tol)
    /\ UNCHANGED <<abi_fs, loc_req, patchVars, runVars, regridVars>>

NextLocate == Locate

SpecLocate == InitLocate /\ [][NextLocate]_vars

-----------------------------------------------------------------------------
(* Arrays.  A 2-d array is [shape |-> <<rows, cols>>, data |-> rows of     *)
(* values]; the shape is kept apart because a slice may have no rows.      *)

\* the array of the values val[r, c]
Array(n_rows, n_cols, val) ==
    [shape |-> <<n_rows, n_cols>>,
     data |-> [r \in 1..n_rows |-> [c \in 1..n_cols |-> val[r, c]]]]

zeros(n_rows, n_cols) == Array(n_rows, n_cols, [r \in 1..n_rows, c \in 1..n_cols |-> 0])

\* slice(start, stop) applied to an axis of length n: the 0-based indices it
\* selects, as Python's slice.indices does (a negative bound counts from the
\* end, then both bounds are clamped to 0..n)
SliceBound(v, n) == IF v < 0 THEN Max2(v + n, 0) ELSE Min2(v, n)
SliceIndices(start, stop, n) ==
    LET lo == SliceBound(start, n)
        hi == SliceBound(stop, n)
    IN [bi \in 1..Max2(hi - lo, 0) |-> lo + bi - 1]

\* a[row_slice, col_slice], rows and cols being the selected 0-based indices
Slice2(a, rows, cols) ==
    [shape |-> <<Len(rows), Len(cols)>>,
     data |-> [i \in 1..Len(rows) |-> [j \in 1..Len(cols) |->
                  a.data[rows[i] + 1][cols[j] + 1]]]]

\* numpy assignment dst[...] = src: src is broadcast to the fixed shape of dst
CanBroadcast(src_shape, dst_shape) ==
    \A bi \in 1..2 : src_shape[bi] = dst_shape[bi] \/ src_shape[bi] = 1
Broadcast(src, dst_shape) ==
    [shape |-> dst_shape,
     data |-> [i \in 1..dst_shape[1] |-> [j \in 1..dst_shape[2] |->
                  src.data[IF src.shape[1] = 1 THEN 1 ELSE i]
                          [IF src.shape[2] = 1 THEN 1 ELSE j]]]]

-----------------------------------------------------------------------------
(* The GOES16ABI instance.  The projection is pyproj's; it is modelled by  *)
(* a one-to-one map between (lon, lat) and projected (x, y).               *)

perspective_point_height == 2
longitude_of_projection_origin == -75

\* the projected points whose line of sight meets the Earth
VisibleDisk(x, y) == x * x + y * y <= 8 * 8

\* the value pyproj returns for a point it cannot project (1e30 or inf); every
\* other number of the model is smaller than 1e10
proj_inf == 2147483647
\* the 1e10 of lon_lat_coords: only proj_inf is larger
nan_limit == 2147483646
\* np.nan: a number no computation of the model yields
nan == -2147483647

\* self.proj(lon, lat) and self.proj(x, y, inverse=True)
ProjForward(lon, lat) ==
    LET x == lon - longitude_of_projection_origin
    IN IF VisibleDisk(x, lat) THEN <<x, lat>> ELSE <<proj_inf, proj_inf>>
ProjInverse(x, y) ==
    IF VisibleDisk(x, y) THEN <<x + longitude_of_projection_origin, y>>
    ELSE <<proj_inf, proj_inf>>

\* a granule's normalised scan-angle axes: x grows eastwards, y falls southwards
GranuleX(n_cols) == [c \in 1..n_cols |-> c - 1]
GranuleY(n_rows) == [r \in 1..n_rows |-> 1 - r]

\* a granule's radiances: a value that names the file and the pixel
GranuleRad(f, n_rows, n_cols) ==
    Array(n_rows, n_cols, [r \in 1..n_rows, c \in 1..n_cols |->
                              ((f.e \div 10) * 10 + f.ch) * 100 + r * 10 + c])

\* GOES16ABI.sat_coordinates
sat_coordinates(raw) == [i \in DOMAIN raw |-> raw[i] * perspective_point_height]

\* a[a > 1e10] = np.nan, for one entry
nan_if_large(v) == IF v > nan_limit THEN nan ELSE v

\* GOES16ABI.lon_lat_coords: the inverse projection of every pixel, then NaN
\* for every value above 1e10 (the pixels off the Earth's disk)
lon_lat_coords(x, y) ==
    [lon |-> Array(Len(y), Len(x), [r \in DOMAIN y, c \in DOMAIN x |->
                                       nan_if_large(ProjInverse(x[c], y[r])[1])]),
     lat |-> Array(Len(y), Len(x), [r \in DOMAIN y, c \in DOMAIN x |->
                                       nan_if_large(ProjInverse(x[c], y[r])[2])])]

\* the instance GOES16ABI.__init__ leaves once every band's file is open:
\* files[bi] is the file opened for bands[bi]
Instance(bands, files, n_rows, n_cols) ==
    LET x == sat_coordinates(GranuleX(n_cols))
        y == sat_coordinates(GranuleY(n_rows))
        ll == lon_lat_coords(x, y)
    IN [bands |-> bands, x |-> x, y |-> y, lon |-> ll.lon, lat |-> ll.lat,
        rad |-> [bi \in DOMAIN bands |-> GranuleRad(files[bi], n_rows, n_cols)]]

NoArray == zeros(0, 0)
PatchResult(st, patch, lons, lats) ==
    [status |-> st, patch |-> patch, lons |-> lons, lats |-> lats]

NoPatchResult == PatchResult("none", <<>>, NoArray, NoArray)

\* np.abs(v - center) in float64: proj_inf absorbs every coordinate
center_distance(v, center) == IF center = proj_inf THEN proj_inf ELSE Abs(v - center)

\* np.argmin(np.abs(axis - center)), 0-based
center_index(axis, center) ==
    argmin([i \in DOMAIN axis |-> center_distance(axis[i], center)]) - 1

\* slice(center - size // 2, center + size // 2): its start and stop
window(center, size_pixels) ==
    <<center - size_pixels \div 2, center + size_pixels \div 2>>

\* GOES16ABI.extract_image_patch.  patch[bi] is patch[0, :, :, bi-1].
extract_image_patch(inst, center_lon, center_lat, x_size_pixels, y_size_pixels) ==
    LET center == ProjForward(center_lon, center_lat)
        center_row == center_index(inst.y, center[2])
        center_col == center_index(inst.x, center[1])
        rw == window(center_row, y_size_pixels)
        cw == window(center_col, x_size_pixels)
        row_slice == SliceIndices(rw[1], rw[2], Len(inst.y))
        col_slice == SliceIndices(cw[1], cw[2], Len(inst.x))
        shape == <<y_size_pixels, x_size_pixels>>
        src(bi) == Slice2(inst.rad[bi], row_slice, col_slice)
    IN IF \E bi \in DOMAIN inst.bands : ~CanBroadcast(src(bi).shape, shape)
       THEN PatchResult("ValueError", <<>>, NoArray, NoArray)
       ELSE PatchResult("ok",
                        [bi \in DOMAIN inst.bands |-> Broadcast(src(bi), shape)],
                        Slice2(inst.lon, row_slice, col_slice),
                        Slice2(inst.lat, row_slice, col_slice))

-----------------------------------------------------------------------------
(* SpecPatch: one extraction from an image of n_rows x n_cols pixels *)

PatchBands == <<1, 2>>
PatchFiles == <<File(1, 1, Stamp(0, 0), Stamp(3, 0), Stamp(4, 0)),
                File(1, 2, Stamp(0, 0), Stamp(3, 0), Stamp(4, 0))>>

InitPatch ==
    /\ img \in [n_rows : 2..MaxDim, n_cols : 2..MaxDim]
    /\ ext_req \in [row : 0..(MaxDim - 1), col : 0..(MaxDim - 1), off : {0, 1},
                    x_size : 1..MaxSize, y_size : 1..MaxSize]
    /\ ext_req.row < img.n_rows /\ ext_req.col < img.n_cols
    /\ ext_out = NoPatchResult
    /\ abi_fs = {} /\ loc_req = "idle" /\ loc_out = "idle"
    /\ IdleRun /\ IdleRegrid

\* the (lon, lat) asked for: the centre of pixel (row, col), moved by off
\* projected units towards the next column and the previous row
ReqLon ==
    ext_req.col * perspective_point_height + ext_req.off + longitude_of_projection_origin
ReqLat == -(ext_req.row * perspective_point_height) + ext_req.off

Extract ==
    /\ ext_out = NoPatchResult
    /\ ext_out' = extract_image_patch(
                      Instance(PatchBands, PatchFiles, img.n_rows, img.n_cols),
                      ReqLon, ReqLat, ext_req.x_size, ext_req.y_size)
    /\ UNCHANGED <<img, ext_req, locVars, runVars, regridVars>>

NextPatch == Extract

SpecPatch == InitPatch /\ [][NextPatch]_vars

-----------------------------------------------------------------------------
(* extract_abi_patches: its inputs *)

RunTolerance == 11       \* GOES16ABI(..., time_range_minutes=11)

\* the GLM grid file: times, a 2 x 2 grid of cells, lightning counts
lead_time == 10 * 60
GridTime(tt) == Midnight + 60 * 60 + tt * (20 * 60)
GridShape == <<2, 2>>
NumCells == GridShape[1] * GridShape[2]
\* the image pixel (row, col) each grid cell lies on, all of them on the
\* Earth's disk; cell (0, 0) lies on the first image row
GridPixel == << << <<0, 1>>, <<1, 2>> >>, << <<2, 1>>, <<3, 2>> >> >>
GridLon(rc) ==
    ProjInverse(sat_coordinates(GranuleX(MaxDim))[GridPixel[rc[1] + 1][rc[2] + 1][2] + 1], 0)[1]
GridLat(rc) ==
    ProjInverse(0, sat_coordinates(GranuleY(MaxDim))[GridPixel[rc[1] + 1][rc[2] + 1][1] + 1])[2]
counts(tt, rc) == 1 + tt * NumCells + rc[1] * GridShape[2] + rc[2]

\* np.unravel_index(i, lons.shape)
unravel_index(i, shape) == <<i \div shape[2], i % shape[2]>>

\* np.random.choice(grid_sample_indices, size=n, replace=False)
random_choice(n) ==
    {q \in [1..n -> 0..(NumCells - 1)] : \A i, j \in 1..n : i # j => q[i] # q[j]}

\* the granule directory: one file per time step and band, each a little
\* after the step's patch time, and a file of band 1 hours away
PatchTime(tt) == GridTime(tt) - lead_time
RunFile(tt, band) ==
    File(PatchTime(tt) \div SecondsPerDay, band,
         (PatchTime(tt) - 60) * 10, (PatchTime(tt) + 30 * band) * 10 + 3,
         (PatchTime(tt) + 40 * band) * 10 + 1)
FullPool == {RunFile(tt, band) : tt \in 0..(MaxTimes - 1), band \in {1, 2}}
FarFile == File(1, 1, Stamp(20000, 0), Stamp(20100, 0), Stamp(20200, 0))
RunDirs ==
    {(FullPool \ M) \cup F : M \in {X \in SUBSET FullPool : Cardinality(X) <= 1},
                             F \in SUBSET {FarFile}} \cup {{}}
\* <<files present, files xr.open_dataset cannot read>>
Scenarios == {<<fs, {}>> : fs \in RunDirs} \cup {<<FullPool, {f}>> : f \in FullPool}

BandChoices == {<<1>>, <<1, 2>>, <<1, 1>>}

Err(type, at) == [type |-> type, at |-> at]
NoErr == Err("none", "none")
NoOutput == [abi |-> <<>>, time |-> <<>>, lon |-> <<>>, lat |-> <<>>,
             flash_counts |-> <<>>, written |-> FALSE]

InitRun ==
    /\ \E sc \in Scenarios :
          /\ abi_fs = sc[1]
          /\ cfg \in [grid_exists : BOOLEAN, n_times : 0..MaxTimes,
                      samples_per_time : 0..Min2(MaxSamples, NumCells),
                      bands : BandChoices, patch_pixels : {2, 3},
                      patch_dir_exists : BOOLEAN, unreadable : {sc[2]}]
    /\ pc = "start" /\ t = 0 /\ s = 0 /\ k = 0 /\ samples = <<>>
    /\ goes16_ds = <<>> /\ opened = {} /\ lookups = 0
    /\ flash_counts = <<>> /\ patches = <<>> /\ patch_lons = <<>>
    /\ patch_lats = <<>> /\ patch_times = <<>>
    /\ glm_open = FALSE /\ out_file = NoOutput /\ dir_made = FALSE /\ err = NoErr
    /\ loc_req = "idle" /\ loc_out = "idle"
    /\ img = "idle" /\ ext_req = "idle" /\ ext_out = "idle"
    /\ IdleRegrid

-----------------------------------------------------------------------------
(* extract_abi_patches: its steps *)

\* lines 180-197 with makedirs(patch_path) moved ahead of the grid file test
Start_makedirs_first ==
    /\ pc = "start"
    /\ dir_made' = ~cfg.patch_dir_exists
    /\ IF ~cfg.grid_exists
       THEN /\ pc' = "failed"
            /\ err' = Err("FileNotFoundError", "grid")
            /\ UNCHANGED <<glm_open, dataVars>>
       ELSE /\ glm_open' = TRUE
            /\ patches' = [i \in 1..(cfg.n_times * cfg.samples_per_time) |->
                             [b \in DOMAIN cfg.bands |->
                                 zeros(cfg.patch_pixels, cfg.patch_pixels)]]
            /\ patch_lons' = [i \in 1..(cfg.n_times * cfg.samples_per_time) |->
                                zeros(cfg.patch_pixels, cfg.patch_pixels)]
            /\ patch_lats' = [i \in 1..(cfg.n_times * cfg.samples_per_time) |->
                                zeros(cfg.patch_pixels, cfg.patch_pixels)]
            /\ flash_counts' = [i \in 1..(cfg.n_times * cfg.samples_per_time) |-> 0]
            /\ patch_times' = <<>>
            /\ pc' = IF cfg.n_times = 0 THEN "write" ELSE "sample"
            /\ err' = err
    /\ UNCHANGED <<abi_fs, cfg, t, s, k, samples, goes16_ds, opened, lookups,
                   out_file, locVars, patchVars, regridVars>>

\* lines 180-197: the grid file test, opening it, the output arrays
Start ==
    /\ pc = "start"
    /\ IF ~cfg.grid_exists
       THEN /\ pc' = "failed"
            /\ err' = Err("FileNotFoundError", "grid")
            /\ UNCHANGED <<glm_open, dataVars>>
       ELSE /\ glm_open' = TRUE
            /\ patches' = [i \in 1..(cfg.n_times * cfg.samples_per_time) |->
                             [b \in DOMAIN cfg.bands |->
                                 zeros(cfg.patch_pixels, cfg.patch_pixels)]]
            /\ patch_lons' = [i \in 1..(cfg.n_times * cfg.samples_per_time) |->
                                zeros(cfg.patch_pixels, cfg.patch_pixels)]
            /\ patch_lats' = [i \in 1..(cfg.n_times * cfg.samples_per_time) |->
                                zeros(cfg.patch_pixels, cfg.patch_pixels)]
            /\ flash_counts' = [i \in 1..(cfg.n_times * cfg.samples_per_time) |-> 0]
            /\ patch_times' = <<>>
            /\ pc' = IF cfg.n_times = 0 THEN "write" ELSE "sample"
            /\ err' = err
    /\ UNCHANGED <<abi_fs, cfg, t, s, k, samples, goes16_ds, opened, lookups,
                   out_file, dir_made, locVars, patchVars, regridVars>>

\* lines 199-203 and the start of GOES16ABI.__init__ (lines 25-30)
Sample ==
    /\ pc = "sample"
    /\ \E time_samples \in random_choice(cfg.samples_per_time) :
          samples' = Append(samples, time_samples)
    /\ goes16_ds' = <<>>
    /\ k' = 1
    /\ pc' = "init"
    /\ UNCHANGED <<abi_fs, cfg, t, s, opened, lookups, dataVars, endVars,
                   locVars, patchVars, regridVars>>

\* self.goes16_ds[band] = dataset: an entry of the same band is replaced
SetItem(ds, band, h) == [b \in DOMAIN ds \cup {band} |-> IF b = band THEN h ELSE ds[b]]
DelItem(ds, band) == [b \in DOMAIN ds \ {band} |-> ds[b]]

\* one turn of the loop of GOES16ABI.__init__ (lines 31-33): the lookup of
\* bands[k] and the opening of its file.  A dataset whose dictionary entry is
\* replaced is closed only if the interpreter collects it.
OpenBand ==
    /\ pc = "init" /\ k <= Len(cfg.bands)
    /\ lookups' = lookups + 1
    /\ LET band == cfg.bands[k]
           r == goes16_abi_filename(abi_fs, PatchTime(t), band, RunTolerance)
           h == [t |-> t, k |-> k, file |-> r.filename]
       IN IF r.status # "ok"
          THEN /\ pc' = "failed" /\ err' = Err(r.status, "locate")
               /\ UNCHANGED <<k, goes16_ds, opened>>
          ELSE IF r.filename \in cfg.unreadable
          THEN /\ pc' = "failed" /\ err' = Err("OSError", "open")
               /\ UNCHANGED <<k, goes16_ds, opened>>
          ELSE /\ \E collected \in (IF band \in DOMAIN goes16_ds THEN BOOLEAN ELSE {FALSE}) :
                     opened' = (IF collected THEN opened \ {goes16_ds[band]} ELSE opened)
                               \cup {h}
               /\ goes16_ds' = SetItem(goes16_ds, band, h)
               /\ k' = k + 1
               /\ UNCHANGED <<pc, err>>
    /\ UNCHANGED <<abi_fs, cfg, t, s, samples, dataVars, glm_open, out_file, dir_made,
                   locVars, patchVars, regridVars>>

\* the rest of GOES16ABI.__init__ (lines 34-42) and line 205
FinishInit ==
    /\ pc = "init" /\ k > Len(cfg.bands)
    /\ patch_times' = patch_times \o [i \in 1..cfg.samples_per_time |-> GridTime(t)]
    /\ s' = 0
    /\ pc' = IF cfg.samples_per_time = 0 THEN "close" ELSE "extract"
    /\ UNCHANGED <<abi_fs, cfg, t, k, samples, goes16_ds, opened, lookups, flash_counts,
                   patches, patch_lons, patch_lats, endVars, locVars, patchVars, regridVars>>

\* the index of lines 207-209, flash_counts[t * s]
PatchIndex(tt, ss) == tt * ss

\* the GOES16ABI instance of the current step
Timestep(bands, ds) ==
    Instance(bands, [i \in DOMAIN bands |-> ds[bands[i]].file], MaxDim, MaxDim)

\* one turn of the sample loop (lines 206-213)
ExtractPatch ==
    /\ pc = "extract"
    /\ LET idx == PatchIndex(t, s) + 1
           rc == unravel_index(samples[t + 1][s + 1], GridShape)
           shape == <<cfg.patch_pixels, cfg.patch_pixels>>
           r == extract_image_patch(Timestep(cfg.bands, goes16_ds), GridLon(rc), GridLat(rc),
                                    cfg.patch_pixels, cfg.patch_pixels)
       IN /\ flash_counts' = [flash_counts EXCEPT ![idx] = counts(t, rc)]
          /\ IF r.status # "ok"
             THEN /\ pc' = "failed" /\ err' = Err(r.status, "extract")
                  /\ UNCHANGED <<s, patches, patch_lons, patch_lats>>
             ELSE /\ patches' = [patches EXCEPT ![idx] = r.patch]
                  /\ IF ~CanBroadcast(r.lons.shape, shape)
                     THEN /\ pc' = "failed" /\ err' = Err("ValueError", "extract")
                          /\ UNCHANGED <<s, patch_lons, patch_lats>>
                     ELSE /\ patch_lons' = [patch_lons EXCEPT ![idx] = Broadcast(r.lons, shape)]
                          /\ patch_lats' = [patch_lats EXCEPT ![idx] = Broadcast(r.lats, shape)]
                          /\ s' = s + 1
                          /\ pc' = IF s + 1 = cfg.samples_per_time THEN "close" ELSE "extract"
                          /\ err' = err
    /\ UNCHANGED <<abi_fs, cfg, t, k, samples, goes16_ds, opened, lookups, patch_times,
                   glm_open, out_file, dir_made, locVars, patchVars, regridVars>>

CloseResult(st, ds, op) == [status |-> st, ds |-> ds, opened |-> op]

\* close() deleting the dictionary entries without closing the datasets
RECURSIVE close_del_only(_, _, _, _)
close_del_only(bands, i, ds, op) ==
    IF i > Len(bands) THEN CloseResult("ok", ds, op)
    ELSE IF bands[i] \notin DOMAIN ds THEN CloseResult("KeyError", ds, op)
    ELSE close_del_only(bands, i + 1, DelItem(ds, bands[i]), op)

\* GOES16ABI.close, from band i on
RECURSIVE close(_, _, _, _)
close(bands, i, ds, op) ==
    IF i > Len(bands) THEN CloseResult("ok", ds, op)
    ELSE IF bands[i] \notin DOMAIN ds THEN CloseResult("KeyError", ds, op)
    ELSE close(bands, i + 1, DelItem(ds, bands[i]), op \ {ds[bands[i]]})

\* lines 214-215 and the loop's advance
CloseTimestep ==
    /\ pc = "close"
    /\ LET r == close(cfg.bands, 1, goes16_ds, opened)
       IN /\ goes16_ds' = r.ds
          /\ opened' = r.opened
          /\ IF r.status # "ok"
             THEN /\ pc' = "failed" /\ err' = Err(r.status, "close")
                  /\ t' = t
             ELSE /\ t' = t + 1
                  /\ pc' = IF t + 1 = cfg.n_times THEN "write" ELSE "sample"
                  /\ err' = err
    /\ UNCHANGED <<abi_fs, cfg, s, k, samples, lookups, dataVars, glm_open, out_file,
                   dir_made, locVars, patchVars, regridVars>>

\* lines 216-234: the dataset, the output directory, the file (makedirs and
\* to_netcdf are taken to succeed)
WriteOutput ==
    /\ pc = "write"
    /\ glm_open' = FALSE
    /\ out_file' = [abi |-> patches, time |-> patch_times, lon |-> patch_lons,
                    lat |-> patch_lats, flash_counts |-> flash_counts, written |-> TRUE]
    /\ dir_made' = ~cfg.patch_dir_exists
    /\ pc' = "done"
    /\ UNCHANGED <<abi_fs, cfg, loopVars_noPc, dataVars, err, locVars, patchVars, regridVars>>

NextRun ==
    \/ Start
    \/ Sample
    \/ OpenBand
    \/ FinishInit
    \/ ExtractPatch
    \/ CloseTimestep
    \/ WriteOutput

SpecRun == InitRun /\ [][NextRun]_vars

-----------------------------------------------------------------------------
(* regrid_imagery.  A projection is a one-to-one map from (lon, lat) to    *)
(* projected (x, y); pyproj's transform(p1, p2, x, y) takes a point given  *)
(* in p1's coordinates to p2's coordinates.                                *)

MaxShift == 2        \* largest offset of a projection

Projection(dx, dy) == [dx |-> dx, dy |-> dy]
proj_forward(p, lon, lat) == <<lon + p.dx, lat + p.dy>>
proj_inverse(p, x, y) == <<x - p.dx, y - p.dy>>
transform(p1, p2, x, y) ==
    LET ll == proj_inverse(p1, x, y) IN proj_forward(p2, ll[1], ll[2])

\* a.ravel() and q.reshape(shape), row-major
ravel(a) == [n \in 1..(a.shape[1] * a.shape[2]) |->
                a.data[((n - 1) \div a.shape[2]) + 1][((n - 1) % a.shape[2]) + 1]]
reshape(q, shape) ==
    [shape |-> shape,
     data |-> [i \in 1..shape[1] |-> [j \in 1..shape[2] |-> q[(i - 1) * shape[2] + j]]]]

\* the source image: a field linear in x and y, sampled on x_image x y_image
SourceField(x, y) == 10 * x + y
SourceAxis == <<0, 1, 2, 3>>
SourceImage ==
    Array(Len(SourceAxis), Len(SourceAxis),
          [i \in DOMAIN SourceAxis, j \in DOMAIN SourceAxis |->
              SourceField(SourceAxis[i], SourceAxis[j])])

\* RectBivariateSpline(x_image, y_image, image).ev(x, y) for an image linear in
\* x and y: the interpolating spline is that linear field, and FITPACK moves a
\* point outside the axes' range to the nearest edge
Clamp(v, axis) == Max2(axis[1], Min2(axis[Len(axis)], v))
spline_ev(x_image, y_image, image, x, y) ==
    LET cx == Clamp(x, x_image)
        cy == Clamp(y, y_image)
        i == CHOOSE n \in DOMAIN x_image : x_image[n] = cx
        j == CHOOSE n \in DOMAIN y_image : y_image[n] = cy
    IN image.data[i][j]

\* regrid_imagery
regrid_imagery(image, x_image, y_image, x_regrid, y_regrid, image_proj, regrid_proj) ==
    LET xs == ravel(x_regrid)
        ys == ravel(y_regrid)
        regrid_image == [n \in DOMAIN xs |-> transform(image_proj, regrid_proj, xs[n], ys[n])]
        values == [n \in DOMAIN xs |->
                      spline_ev(x_image, y_image, image,
                                regrid_image[n][1], regrid_image[n][2])]
    IN reshape(values, x_regrid.shape)

\* np.meshgrid of the destination axes x0.., y0..
MeshX(x0, n_rows, n_cols) ==
    Array(n_rows, n_cols, [i \in 1..n_rows, j \in 1..n_cols |-> x0 + j - 1])
MeshY(y0, n_rows, n_cols) ==
    Array(n_rows, n_cols, [i \in 1..n_rows, j \in 1..n_cols |-> y0 + i - 1])

InitRegrid ==
    /\ rg_in \in [image_proj : {Projection(dx, dy) : dx \in 0..MaxShift, dy \in 0..1},
                  regrid_proj : {Projection(dx, dy) : dx \in 0..MaxShift, dy \in 0..1},
                  x0 : 1..MaxShift, y0 : 1..2, n_rows : 1..2, n_cols : 1..2]
    /\ rg_out = NoArray
    /\ abi_fs = {} /\ loc_req = "idle" /\ loc_out = "idle"
    /\ img = "idle" /\ ext_req = "idle" /\ ext_out = "idle"
    /\ IdleRun

Regrid ==
    /\ rg_out = NoArray
    /\ rg_out' = regrid_imagery(SourceImage, SourceAxis, SourceAxis,
                                MeshX(rg_in.x0, rg_in.n_rows, rg_in.n_cols),
                                MeshY(rg_in.y0, rg_in.n_rows, rg_in.n_cols),
                                rg_in.image_proj, rg_in.regrid_proj)
    /\ UNCHANGED <<rg_in, locVars, patchVars, runVars>>

NextRegrid == Regrid

SpecRegrid == InitRegrid /\ [][NextRegrid]_vars

-----------------------------------------------------------------------------
(* Claims about goes16_abi_filename (SpecLocate) *)

Candidates == glob(abi_fs, loc_req.date, loc_req.channel)
\* the distance of a file's end stamp, read to the second, from the request
TimeDiff(f) == Abs(f.e \div 10 - loc_req.date)
WithinTolerance(f) == TimeDiff(f) <= loc_req.tol * 60
Looked == loc_out # NoResult

\* C1: with a non-empty candidate set whose smallest distance is d1, the lookup
\* returns the candidate at d1 when d1 <= T (on a tie the first in sorted file
\* name order) and fails when d1 > T; no candidate nearer than the returned one
\* exists.
C1_Minimality ==
    (Looked /\ Candidates # {}) =>
        IF \E f \in Candidates : WithinTolerance(f)
        THEN /\ loc_out.status = "ok"
             /\ loc_out.filename \in Candidates
             /\ \A g \in Candidates : TimeDiff(loc_out.filename) <= TimeDiff(g)
             /\ \A g \in Candidates \ {loc_out.filename} :
                   TimeDiff(g) = TimeDiff(loc_out.filename) => NameLess(loc_out.filename, g)
        ELSE /\ loc_out.status \notin {"ok", "none"}
             /\ loc_out.filename = NoFile

\* a lookup that returned the nearest of three candidates in tolerance, two of
\* them tied at the smallest distance and a farther one sorted before both
C1_Witness ==
    /\ Looked /\ loc_out.status = "ok"
    /\ \E g \in Candidates \ {loc_out.filename} :
          TimeDiff(g) = TimeDiff(loc_out.filename)
    /\ \E g \in Candidates :
          /\ WithinTolerance(g) /\ TimeDiff(g) > TimeDiff(loc_out.filename)
          /\ NameLess(g, loc_out.filename)

\* C6: when no candidate lies within the tolerance (no candidate at all
\* included) the lookup fails with FileNotFoundError and returns no path.
C6_NotFoundError ==
    (Looked /\ ~\E f \in Candidates : WithinTolerance(f)) =>
        /\ loc_out.status = "FileNotFoundError"
        /\ loc_out.filename = NoFile

-----------------------------------------------------------------------------
(* Claims about extract_image_patch (SpecPatch) *)

PatchImage == Instance(PatchBands, PatchFiles, img.n_rows, img.n_cols)
CenterRow == center_index(PatchImage.y, ProjForward(ReqLon, ReqLat)[2])
CenterCol == center_index(PatchImage.x, ProjForward(ReqLon, ReqLat)[1])
RowLo == CenterRow - ext_req.y_size \div 2
RowHi == CenterRow + ext_req.y_size \div 2
ColLo == CenterCol - ext_req.x_size \div 2
ColHi == CenterCol + ext_req.x_size \div 2
WindowInside == RowLo >= 0 /\ RowHi <= img.n_rows /\ ColLo >= 0 /\ ColHi <= img.n_cols
Extracted == ext_out # NoPatchResult

\* the rows and columns of the window that lie inside the image (0-based)
RowsInside == Max2(RowLo, 0)..(Min2(RowHi, img.n_rows) - 1)
ColsInside == Max2(ColLo, 0)..(Min2(ColHi, img.n_cols) - 1)

\* a holds the values of src over the given rows and columns, in order
HoldsWindow(a, src, rows, cols) ==
    \A r \in rows, c \in cols :
        /\ r - Max2(RowLo, 0) + 1 \in 1..a.shape[1]
        /\ c - Max2(ColLo, 0) + 1 \in 1..a.shape[2]
        /\ a.data[r - Max2(RowLo, 0) + 1][c - Max2(ColLo, 0) + 1] = src.data[r + 1][c + 1]

\* C4: when the window lies inside the image, odd sizes included, the call
\* returns a patch of exactly y_size x x_size pixels per band and lon / lat
\* grids of that shape, holding the image's values over the window.
C4_FullWindow ==
    (Extracted /\ WindowInside) =>
        /\ ext_out.status = "ok"
        /\ ext_out.lons.shape = <<ext_req.y_size, ext_req.x_size>>
        /\ ext_out.lats.shape = <<ext_req.y_size, ext_req.x_size>>
        /\ HoldsWindow(ext_out.lons, PatchImage.lon, RowsInside, ColsInside)
        /\ HoldsWindow(ext_out.lats, PatchImage.lat, RowsInside, ColsInside)
        /\ \A b \in DOMAIN PatchBands :
              /\ ext_out.patch[b].shape = <<ext_req.y_size, ext_req.x_size>>
              /\ HoldsWindow(ext_out.patch[b], PatchImage.rad[b], RowsInside, ColsInside)

\* C5: when the window extends past an edge of the image, the call returns
\* without an error, and the patch, lon and lat arrays are exactly the part of
\* the window inside the image.
C5_Truncated ==
    (Extracted /\ ~WindowInside) =>
        /\ ext_out.status = "ok"
        /\ ext_out.lons.shape = <<Cardinality(RowsInside), Cardinality(ColsInside)>>
        /\ ext_out.lats.shape = <<Cardinality(RowsInside), Cardinality(ColsInside)>>
        /\ HoldsWindow(ext_out.lons, PatchImage.lon, RowsInside, ColsInside)
        /\ HoldsWindow(ext_out.lats, PatchImage.lat, RowsInside, ColsInside)
        /\ \A b \in DOMAIN PatchBands :
              /\ ext_out.patch[b].shape = <<Cardinality(RowsInside), Cardinality(ColsInside)>>
              /\ HoldsWindow(ext_out.patch[b], PatchImage.rad[b], RowsInside, ColsInside)

-----------------------------------------------------------------------------
(* Claims about extract_abi_patches (SpecRun) *)

NumPatches == cfg.n_times * cfg.samples_per_time
\* the granule of a band within RunTolerance minutes of step tt's patch time
Granule(tt, band) == goes16_abi_filename(abi_fs, PatchTime(tt), band, RunTolerance)
GranulesReady(tt) ==
    \A i \in DOMAIN cfg.bands :
        /\ Granule(tt, cfg.bands[i]).status = "ok"
        /\ Granule(tt, cfg.bands[i]).filename \notin cfg.unreadable
\* what extract_image_patch gives for step tt at grid cell number cell
CellPatch(tt, cell) ==
    extract_image_patch(
        Instance(cfg.bands, [i \in DOMAIN cfg.bands |-> Granule(tt, cfg.bands[i]).filename],
                 MaxDim, MaxDim),
        GridLon(unravel_index(cell, GridShape)), GridLat(unravel_index(cell, GridShape)),
        cfg.patch_pixels, cfg.patch_pixels)
CellCount(tt, cell) == counts(tt, unravel_index(cell, GridShape))

\* C2: when the run ends, position t * samples_per_time + s of the output holds
\* the patch, the lon / lat grids and the flash count of the pair (t, s), for
\* every time step t and sample index s.
C2_LexicographicOrder ==
    pc = "done" =>
        \A tt \in 0..(cfg.n_times - 1), ss \in 0..(cfg.samples_per_time - 1) :
            LET pos == tt * cfg.samples_per_time + ss + 1
                cell == samples[tt + 1][ss + 1]
            IN /\ out_file.flash_counts[pos] = CellCount(tt, cell)
               /\ out_file.abi[pos] = CellPatch(tt, cell).patch
               /\ out_file.lon[pos] = CellPatch(tt, cell).lons
               /\ out_file.lat[pos] = CellPatch(tt, cell).lats

\* C3: in the written dataset, a position that holds the patch extracted at
\* step t around a cell holds the grid time of step t and the grid count of
\* step t at that cell.
C3_ParallelArrays ==
    pc = "done" =>
        \A pos \in 1..NumPatches, tt \in 0..(cfg.n_times - 1),
           ss \in 0..(cfg.samples_per_time - 1) :
            out_file.abi[pos] = CellPatch(tt, samples[tt + 1][ss + 1]).patch =>
                /\ out_file.time[pos] = GridTime(tt)
                /\ out_file.flash_counts[pos] = CellCount(tt, samples[tt + 1][ss + 1])

\* C7: when the run has ended with an error, no granule dataset is open.
C7_ReleasedOnError == pc = "failed" => opened = {}

\* C8: while the run has not failed, every open granule dataset belongs to the
\* instance of the current time step, which is built after that step's
\* sampling and closed after its last patch; between two steps and after the
\* loop no granule dataset is open.
C8_OneImageAtATime ==
    pc # "failed" =>
        /\ \A h \in opened : h.t = t /\ pc \in {"init", "extract", "close"}
        /\ pc \in {"init", "extract", "close"} => Len(samples) = t + 1
        /\ pc = "extract" =>
              \A i \in DOMAIN cfg.bands : goes16_ds[cfg.bands[i]] \in opened
        /\ pc = "close" => s = cfg.samples_per_time
        /\ pc \in {"start", "sample", "write", "done"} => opened = {}

\* the second time step's instance holds two open granules (the first step's
\* were closed) and its second patch is about to be extracted
C8_Witness ==
    /\ pc = "extract" /\ t = 1 /\ s = 1
    /\ Cardinality(opened) = 2
    /\ \A h \in opened : h.t = 1

\* C9: the output file and directory are made only in a run whose grid file
\* exists and whose every step found and opened its granules and extracted
\* every patch; a failed run writes nothing and makes no directory, and with no
\* grid file it fails before any granule is looked up or opened.
C9_AllOrNothing ==
    /\ (out_file.written \/ dir_made) =>
          /\ pc = "done" /\ err = NoErr /\ cfg.grid_exists
          /\ \A tt \in 0..(cfg.n_times - 1) :
                /\ GranulesReady(tt)
                /\ \A ss \in 1..cfg.samples_per_time :
                      CellPatch(tt, samples[tt + 1][ss]).status = "ok"
    /\ pc = "failed" => ~out_file.written /\ ~dir_made
    /\ (pc = "failed" /\ ~cfg.grid_exists) => lookups = 0 /\ opened = {}

\* a run of two time steps and two samples each wrote its file into a
\* directory it had to make
C9_Witness ==
    /\ pc = "done" /\ out_file.written /\ dir_made
    /\ cfg.n_times = 2 /\ cfg.samples_per_time = 2 /\ Len(cfg.bands) = 2

-----------------------------------------------------------------------------
(* Claims about regrid_imagery (SpecRegrid) *)

\* C10: the result has the destination grid's shape and holds, at every
\* destination point, the interpolant evaluated at that point taken from
\* regrid_proj's coordinates to image_proj's.
C10_RegridDirection ==
    rg_out # NoArray =>
        /\ rg_out.shape = <<rg_in.n_rows, rg_in.n_cols>>
        /\ \A i \in 1..rg_in.n_rows, j \in 1..rg_in.n_cols :
              LET at == transform(rg_in.regrid_proj, rg_in.image_proj,
                                  rg_in.x0 + j - 1, rg_in.y0 + i - 1)
              IN rg_out.data[i][j] = spline_ev(SourceAxis, SourceAxis, SourceImage,
                                               at[1], at[2])

====
